---- MODULE Spec2Model ----
(***************************************************************************)
(* trackd: the progress / streak calculations of the nutrition calendar,   *)
(* the home page and the rewards view, over the intake lists the views     *)
(* hold in memory.                                                         *)
(*                                                                         *)
(* Time is local time.  A Date object is modelled by an integer number of  *)
(* ticks; day n (local midnight) is tick n * TicksPerDay, and day 0 is the *)
(* calendar date Epoch.                                                    *)
(***************************************************************************)
EXTENDS Integers, Sequences, FiniteSets, TLC

\* ------------------------------------------------------------------ bounds
\* The clock runs over days 0 .. LastDay.
LastDay == 3
\* At most MaxIntakes rows are logged in all (protein and calories together).
MaxIntakes == 3
\* The instants of a day at which something can happen.
Instants == {0, 1}
TicksPerDay == Cardinality(Instants)
\* Local calendar date <<year, month, day>> of day 0.
Epoch == <<2023, 12, 30>>
\* What a user types in the forms.
GramChoices == {75}
NutritionGramChoices == {60, 100, 150}
\* The months the calendar is paged over: that of day 0 and the one after it.
InCalendarRange(date) ==
  date[1] * 12 + date[2] \in (Epoch[1] * 12 + Epoch[2])..(Epoch[1] * 12 + Epoch[2] + 1)
CalorieChoices == {2000}
ProteinGoalChoices == {75, 150}
TargetChoices == {2, 3}
TrackingTypes == {"protein", "calories"}
StreakTypes == {"consecutive", "accumulative"}
RewardIds == {"r1"}
\* The long run: the clock is moved on IdleDays days at a time, LongWaits
\* times at most, with no other event in between.
LongWaits == 3

\* The weigh-ins: at most MaxMetrics rows, entered with these form values
\* (stone whole; pounds in tenths as the input steps, 1 is 0.1 lbs).
MaxMetrics == 2
WeightStoneInputs == {<<>>, <<11>>}
WeightPoundInputs == {<<>>, <<1>>}
FatStoneInputs == {<<2>>}
FatPoundInputs == {<<1>>, <<130>>}
MuscleStoneInputs == {<<>>, <<9>>}
MusclePoundInputs == {<<>>, <<45>>}
WeightUnits == {"imperial", "metric"}

VARIABLES
  now,             \* the clock: new Date()
  proteinIntakes,  \* ref<ProteinIntake[]>, as loaded (recorded_at descending)
  calorieIntakes,  \* ref<CalorieIntake[]>, as loaded (recorded_at descending)
  proteinGoal,     \* settings.proteinGoal
  calorieGoal,     \* settings.calorieGoal
  proteinMonth,    \* the month the protein calendar displays, <<year, month, day>>
  rewards,         \* ref<Reward[]>, as loaded (created_at descending)
  metrics,         \* ref<BodyMetric[]>, as loaded (recorded_at ascending)
  weightUnit,      \* settings.weightUnit
  backend,         \* the tables the queries go to: rewards, protein_intake, calorie_intake
  home,            \* the home page's own refs: rewards, calorieIntakes
  isLoading,       \* the isLoading flag of the data views
  enabledPages,    \* settings.enabledPages
  savedPages,      \* localStorage 'enabledPages': absent, or the array written last
  session,         \* the backend client's auth session: absent, or its user
  user,            \* auth.user
  authLoading,     \* auth.isLoading
  route            \* the route the router is on; "" before the first navigation

dataVars == <<now, proteinIntakes, calorieIntakes, proteinGoal, calorieGoal,
              proteinMonth, rewards, metrics, weightUnit>>
loadVars == <<backend, home, isLoading>>
shellVars == <<enabledPages, savedPages, session, user, authLoading, route>>

vars == <<now, proteinIntakes, calorieIntakes, proteinGoal, calorieGoal,
          proteinMonth, rewards, metrics, weightUnit,
          backend, home, isLoading,
          enabledPages, savedPages, session, user, authLoading, route>>

\* ---------------------------------------------------------------- calendar
IsLeapYear(y) == (y % 4 = 0 /\ y % 100 # 0) \/ y % 400 = 0

\* new Date(year, month + 1, 0).getDate(); months are 1..12 here.
DaysInMonth(y, m) ==
  IF m = 2 THEN (IF IsLeapYear(y) THEN 29 ELSE 28)
  ELSE IF m \in {4, 6, 9, 11} THEN 30 ELSE 31

\* The Date constructor's and setDate's normalisation of an out-of-range day
\* of the month: the surplus carries into the following or preceding months.
RECURSIVE NormalizeDate(_, _, _)
NormalizeDate(y, m, d) ==
  IF d < 1 THEN
    LET pm == IF m = 1 THEN 12 ELSE m - 1
        py == IF m = 1 THEN y - 1 ELSE y
    IN NormalizeDate(py, pm, d + DaysInMonth(py, pm))
  ELSE IF d > DaysInMonth(y, m) THEN
    LET nm == IF m = 12 THEN 1 ELSE m + 1
        ny == IF m = 12 THEN y + 1 ELSE y
    IN NormalizeDate(ny, nm, d - DaysInMonth(y, m))
  ELSE <<y, m, d>>

\* Day number (floor) of a Date.
DayOf(ts) == ts \div TicksPerDay

\* date.setHours(0, 0, 0, 0)
SetHoursZero(ts) == ts - (ts % TicksPerDay)

\* d.setDate(d.getDate() + delta): same time of day, delta days later.
AddDays(ts, delta) == ts + delta * TicksPerDay

\* getFullYear(), getMonth() + 1, getDate() of a Date.
LocalDate(ts) == NormalizeDate(Epoch[1], Epoch[2], Epoch[3] + DayOf(ts))

\* Variant: the key is cut from an ISO string, a date in a time zone that
\* is one instant ahead of local time.
DateKeyShifted(ts) == LocalDate(ts + 1)

\* `${getFullYear()}-${pad2(getMonth() + 1)}-${pad2(getDate())}`; the padded
\* string is one-to-one with the triple of numbers.
DateKey(ts) == LocalDate(ts)

\* --------------------------------------------------------- daily bucketing
\* totals[dateKey] || 0
Lookup(totals, key) ==
  IF key \in DOMAIN totals /\ totals[key] # 0 THEN totals[key] ELSE 0

\* Variant: the amount replaces the day's total instead of adding to it.
AddToTotalsOverwrite(totals, key, amount) ==
  [k \in DOMAIN totals \cup {key} |-> IF k = key THEN amount ELSE totals[k]]

\* Variant: a day's total is set by the first entry met and kept,
\* totals[dateKey] = totals[dateKey] || amount.
AddToTotalsKeepFirst(totals, key, amount) ==
  [k \in DOMAIN totals \cup {key} |->
     IF k = key THEN (IF Lookup(totals, key) # 0 THEN totals[key] ELSE amount)
     ELSE totals[k]]

\* totals[dateKey] = (totals[dateKey] || 0) + amount
AddToTotals(totals, key, amount) ==
  [k \in DOMAIN totals \cup {key} |->
     IF k = key THEN Lookup(totals, key) + amount ELSE totals[k]]

\* intakes.forEach(...) into an initially empty object.
RECURSIVE BucketFrom(_, _, _)
BucketFrom(intakes, i, totals) ==
  IF i > Len(intakes) THEN totals
  ELSE BucketFrom(intakes, i + 1,
         AddToTotals(totals, DateKey(intakes[i].recorded_at), intakes[i].amount))

EmptyTotals == [k \in {} |-> 0]

TotalsByDate(intakes) == BucketFrom(intakes, 1, EmptyTotals)

proteinTotalsByDate == TotalsByDate(proteinIntakes)
calorieTotalsByDate == TotalsByDate(calorieIntakes)

\* --------------------------------------------------- nutrition calendar
proteinDaysInMonth == DaysInMonth(proteinMonth[1], proteinMonth[2])

getProteinDateKey(day) == <<proteinMonth[1], proteinMonth[2], day>>

\* Variant: the goal has to be exceeded.
DayMetGoalStrict(totals, dateKey, goal) == Lookup(totals, dateKey) > goal

\* Variant: !(totals[dateKey] < goal), which a date without entries passes.
DayMetGoalNotBelow(totals, dateKey, goal) ==
  ~(dateKey \in DOMAIN totals /\ totals[dateKey] < goal)

\* (totals[dateKey] || 0) >= goal, on the cached value of the computed totals.
DayMetGoal(totals, dateKey, goal) == Lookup(totals, dateKey) >= goal

proteinDayMetGoal(day) ==
  DayMetGoal(proteinTotalsByDate, getProteinDateKey(day), proteinGoal)

\* Variant: the last day of the month is left out.
RECURSIVE CountMetFromShort(_, _)
CountMetFromShort(totals, day) ==
  IF day >= proteinDaysInMonth THEN 0
  ELSE (IF DayMetGoal(totals, getProteinDateKey(day), proteinGoal) THEN 1 ELSE 0)
       + CountMetFromShort(totals, day + 1)

\* Nutrition view: isProteinFuture(day): the day of the displayed month is
\* after today's midnight.
isProteinFuture(day) ==
  LET today == LocalDate(SetHoursZero(now))
      checkDate == NormalizeDate(proteinMonth[1], proteinMonth[2], day)
  IN \/ checkDate[1] > today[1]
     \/ checkDate[1] = today[1] /\ checkDate[2] > today[2]
     \/ checkDate[1] = today[1] /\ checkDate[2] = today[2] /\ checkDate[3] > today[3]

\* Variant: the days after today are left out of the count.
RECURSIVE CountMetFromSkipFuture(_, _)
CountMetFromSkipFuture(totals, day) ==
  IF day > proteinDaysInMonth THEN 0
  ELSE (IF ~isProteinFuture(day) /\ DayMetGoal(totals, getProteinDateKey(day), proteinGoal)
          THEN 1 ELSE 0)
       + CountMetFromSkipFuture(totals, day + 1)

\* The loop of proteinDaysMetGoalThisMonth from `day` on; every
\* proteinDayMetGoal(day) of the loop reads the same cached totals.
RECURSIVE CountMetFrom(_, _)
CountMetFrom(totals, day) ==
  IF day > proteinDaysInMonth THEN 0
  ELSE (IF DayMetGoal(totals, getProteinDateKey(day), proteinGoal) THEN 1 ELSE 0)
       + CountMetFrom(totals, day + 1)

proteinDaysMetGoalThisMonth == CountMetFrom(proteinTotalsByDate, 1)

\* Nutrition view: todayProtein / todayCalories
todayProtein == Lookup(proteinTotalsByDate, DateKey(now))
todayCalories == Lookup(calorieTotalsByDate, DateKey(now))

\* ---------------------------------------------------------------- rewards
\* The last offset the backward walks look at: for (let i = 0; i <= 365; i++)
MaxOffset == 365

\* A nullable timestamp column is <<>> (null) or <<ts>>.
Null == <<>>

\* Variant: no Math.min.
PercentageUncapped(count, target) == [num |-> count * 100, den |-> target]

\* Math.min(100, (count / target) * 100), kept exact as the fraction num / den.
Percentage(count, target) ==
  IF count * 100 >= 100 * target
    THEN [num |-> 100, den |-> 1]
    ELSE [num |-> count * 100, den |-> target]

\* Variants of the walks with one rule changed; the claims are checked to
\* notice each of them.
\* An unmet anchor day ends the walk like any other unmet day.
RECURSIVE ConsecutiveFromStrict(_, _, _, _, _, _)
ConsecutiveFromStrict(totals, goal, startDate, checkDate, i, streak) ==
  IF i > MaxOffset THEN streak
  ELSE LET d == AddDays(checkDate, -i)
       IN IF d < startDate THEN streak
          ELSE IF Lookup(totals, DateKey(d)) >= goal
            THEN ConsecutiveFromStrict(totals, goal, startDate, checkDate, i + 1, streak + 1)
          ELSE streak

\* An unmet day is skipped instead of ending the walk.
RECURSIVE ConsecutiveFromNoBreak(_, _, _, _, _, _)
ConsecutiveFromNoBreak(totals, goal, startDate, checkDate, i, streak) ==
  IF i > MaxOffset THEN streak
  ELSE LET d == AddDays(checkDate, -i)
       IN IF d < startDate THEN streak
          ELSE IF Lookup(totals, DateKey(d)) >= goal
            THEN ConsecutiveFromNoBreak(totals, goal, startDate, checkDate, i + 1, streak + 1)
          ELSE ConsecutiveFromNoBreak(totals, goal, startDate, checkDate, i + 1, streak)

\* The walk does not stop at the start date.
RECURSIVE ConsecutiveFromNoStart(_, _, _, _, _, _)
ConsecutiveFromNoStart(totals, goal, startDate, checkDate, i, streak) ==
  IF i > MaxOffset THEN streak
  ELSE LET d == AddDays(checkDate, -i)
       IN IF Lookup(totals, DateKey(d)) >= goal
            THEN ConsecutiveFromNoStart(totals, goal, startDate, checkDate, i + 1, streak + 1)
          ELSE IF i > 0 THEN streak
          ELSE ConsecutiveFromNoStart(totals, goal, startDate, checkDate, i + 1, streak)

\* The count stops before today: while (d < today).
RECURSIVE AccumulativeFromExclusive(_, _, _, _)
AccumulativeFromExclusive(totals, goal, d, today) ==
  IF d >= today THEN 0
  ELSE (IF Lookup(totals, DateKey(d)) >= goal THEN 1 ELSE 0)
       + AccumulativeFromExclusive(totals, goal, AddDays(d, 1), today)

\* F applied to the value of x.
Apply(F(_), x) == CHOOSE r \in {F(v) : v \in {x}} : TRUE

\* A loop: its body applied to the loop's variables s until the loop has ended
\* (s.done) and at most n times.  The passes are taken sixteen at a time to
\* keep the evaluation shallow.
RECURSIVE Repeat(_, _, _)
Repeat(Body(_), s, n) ==
  IF n <= 0 \/ s.done THEN s
  ELSE IF n <= 16 THEN Repeat(Body, Body(s), n - 1)
  ELSE Repeat(Body, Repeat(Body, s, 16), n - 16)

\* Variant: a met anchor day is not counted, if (dayTotal >= goal && i > 0).
ConsecutiveBodySkipAnchor(totals, goal, startDate, checkDate, s) ==
  LET d == AddDays(checkDate, -s.i)
  IN IF d < startDate THEN [s EXCEPT !.done = TRUE]
     ELSE IF Lookup(totals, DateKey(d)) >= goal /\ s.i > 0
       THEN [s EXCEPT !.i = s.i + 1, !.streak = s.streak + 1]
     ELSE IF s.i > 0 THEN [s EXCEPT !.done = TRUE]
     ELSE [s EXCEPT !.i = s.i + 1]

\* One pass through the body of the consecutive branch's for loop, on the
\* loop variables s = [i, streak]; done is set by either break.
ConsecutiveBody(totals, goal, startDate, checkDate, s) ==
  LET d == AddDays(checkDate, -s.i)
  IN IF d < startDate THEN [s EXCEPT !.done = TRUE]
     ELSE IF Lookup(totals, DateKey(d)) >= goal
       THEN [s EXCEPT !.i = s.i + 1, !.streak = s.streak + 1]
     ELSE IF s.i > 0 THEN [s EXCEPT !.done = TRUE]
     ELSE [s EXCEPT !.i = s.i + 1]

\* Variant: the loop runs to offset 366, for (let i = 0; i <= 366; i++).
ConsecutiveFromLongCap(totals, goal, startDate, checkDate, i, streak) ==
  Repeat(LAMBDA s : ConsecutiveBody(totals, goal, startDate, checkDate, s),
         [i |-> i, streak |-> streak, done |-> FALSE], MaxOffset + 2 - i).streak

\* The consecutive branch's loop, from offset i with `streak` counted so far:
\* for (...; i <= 365; i++), that is MaxOffset + 1 - i passes at most.
ConsecutiveFrom(totals, goal, startDate, checkDate, i, streak) ==
  Repeat(LAMBDA s : ConsecutiveBody(totals, goal, startDate, checkDate, s),
         [i |-> i, streak |-> streak, done |-> FALSE], MaxOffset + 1 - i).streak

\* One pass through the accumulative branch's while (d <= today) loop, on the
\* loop variables s = [d, daysMetGoal]; done when the condition fails.
AccumulativeBody(totals, goal, today, s) ==
  IF s.d > today THEN [s EXCEPT !.done = TRUE]
  ELSE [s EXCEPT !.d = AddDays(s.d, 1),
                 !.daysMetGoal = s.daysMetGoal
                    + (IF Lookup(totals, DateKey(s.d)) >= goal THEN 1 ELSE 0)]

\* The accumulative branch's loop from d forward; it runs until its condition
\* fails, which takes no more than today - d + 2 passes.
AccumulativeFrom(totals, goal, d, today) ==
  Repeat(LAMBDA s : AccumulativeBody(totals, goal, today, s),
         [d |-> d, daysMetGoal |-> 0, done |-> FALSE], today - d + 2).daysMetGoal

\* Variant: the consecutive walk always starts from today, completed or not.
ProgressFromToday(reward, goal, totals, nowTs) ==
  LET startDate == SetHoursZero(reward.created_at)
      today == SetHoursZero(nowTs)
  IN IF reward.streak_type = "consecutive"
       THEN LET streak == ConsecutiveFrom(totals, goal, startDate, today, 0, 0)
            IN [current |-> streak,
                percentage |-> Percentage(streak, reward.target_days)]
       ELSE LET daysMetGoal == AccumulativeFrom(totals, goal, startDate, today)
            IN [current |-> daysMetGoal,
                percentage |-> Percentage(daysMetGoal, reward.target_days)]

\* Rewards view: calculateRewardProgress(reward) after its first two lines,
\* for the goal and the totals they select and the clock reading nowTs.
ProgressFrom(reward, goal, totals, nowTs) ==
  LET startDate == SetHoursZero(reward.created_at)
      today == SetHoursZero(nowTs)
  IN IF reward.streak_type = "consecutive"
       THEN LET checkDate == SetHoursZero(IF reward.completed_at # Null
                                            THEN reward.completed_at[1] ELSE nowTs)
                streak == ConsecutiveFrom(totals, goal, startDate, checkDate, 0, 0)
            IN [current |-> streak,
                percentage |-> Percentage(streak, reward.target_days)]
       ELSE LET daysMetGoal == AccumulativeFrom(totals, goal, startDate, today)
            IN [current |-> daysMetGoal,
                percentage |-> Percentage(daysMetGoal, reward.target_days)]

\* Rewards view: calculateRewardProgress(reward)
calculateRewardProgress(reward) ==
  LET goal == IF reward.tracking_type = "protein" THEN proteinGoal ELSE calorieGoal
      totals == IF reward.tracking_type = "protein"
                  THEN proteinTotalsByDate ELSE calorieTotalsByDate
  IN ProgressFrom(reward, goal, totals, now)

\* Variant: the target has to be exceeded.
isRewardCompleteStrict(reward) ==
  calculateRewardProgress(reward).current > reward.target_days

\* Rewards view: isRewardComplete(reward)
isRewardComplete(reward) ==
  calculateRewardProgress(reward).current >= reward.target_days

\* Variant: the totals are built from the protein entries whatever the
\* reward tracks.
getRewardProgressProteinOnly(reward) ==
  LET goal == IF reward.tracking_type = "protein" THEN proteinGoal ELSE calorieGoal
      totals == TotalsByDate(proteinIntakes)
      startDate == SetHoursZero(reward.created_at)
      today == SetHoursZero(now)
  IN IF reward.streak_type = "consecutive"
       THEN LET streak == ConsecutiveFrom(totals, goal, startDate, today, 0, 0)
            IN [current |-> streak,
                percentage |-> Percentage(streak, reward.target_days)]
       ELSE LET daysMetGoal == AccumulativeFrom(totals, goal, startDate, today)
            IN [current |-> daysMetGoal,
                percentage |-> Percentage(daysMetGoal, reward.target_days)]

\* Home page: getRewardProgress(reward); it buckets the intakes itself and
\* always walks back from today.
getRewardProgress(reward) ==
  LET goal == IF reward.tracking_type = "protein" THEN proteinGoal ELSE calorieGoal
      totals == IF reward.tracking_type = "protein"
                  THEN TotalsByDate(proteinIntakes) ELSE TotalsByDate(calorieIntakes)
      startDate == SetHoursZero(reward.created_at)
      today == SetHoursZero(now)
  IN IF reward.streak_type = "consecutive"
       THEN LET streak == ConsecutiveFrom(totals, goal, startDate, today, 0, 0)
            IN [current |-> streak,
                percentage |-> Percentage(streak, reward.target_days)]
       ELSE LET daysMetGoal == AccumulativeFrom(totals, goal, startDate, today)
            IN [current |-> daysMetGoal,
                percentage |-> Percentage(daysMetGoal, reward.target_days)]

\* The auto-completion of the rewards view's loadData followed by its reload:
\* every loaded reward that is not completed and has reached its target gets
\* completed_at = now.
AutoComplete(loaded) ==
  [i \in 1..Len(loaded) |->
     IF loaded[i].completed_at = Null /\ isRewardComplete(loaded[i])
       THEN [loaded[i] EXCEPT !.completed_at = <<now>>]
       ELSE loaded[i]]

\* -------------------------------------------------------------- home page
\* One pass through the body of proteinStreak's loop, on the loop variables
\* s = [i, streak]; done is set by the break.
StreakBody(dailyTotals, goal, today, s) ==
  IF Lookup(dailyTotals, DateKey(AddDays(today, -s.i))) >= goal
    THEN [s EXCEPT !.i = s.i + 1, !.streak = s.streak + 1]
    ELSE [s EXCEPT !.done = TRUE]

\* proteinStreak's loop "for (let i = 1; i <= 365; i++)", from offset i: the
\* days it adds to the streak.
StreakFrom(dailyTotals, goal, today, i) ==
  Repeat(LAMBDA s : StreakBody(dailyTotals, goal, today, s),
         [i |-> i, streak |-> 0, done |-> FALSE], MaxOffset + 1 - i).streak

\* Variant: a day that has not met the goal yet resets the streak, today
\* included.
StreakOfStrictToday(intakes, goal, nowTs) ==
  IF Len(intakes) = 0 THEN 0
  ELSE LET dailyTotals == TotalsByDate(intakes)
           today == SetHoursZero(nowTs)
       IN IF Lookup(dailyTotals, DateKey(today)) >= goal
            THEN 1 + StreakFrom(dailyTotals, goal, today, 1)
            ELSE 0

\* The body of proteinStreak, for the entry list, the goal and the clock
\* reading it is computed from.
StreakOf(intakes, goal, nowTs) ==
  IF Len(intakes) = 0 THEN 0
  ELSE LET dailyTotals == TotalsByDate(intakes)
           today == SetHoursZero(nowTs)
       IN (IF Lookup(dailyTotals, DateKey(today)) >= goal THEN 1 ELSE 0)
          + StreakFrom(dailyTotals, goal, today, 1)

\* Home page: proteinStreak
proteinStreak == StreakOf(proteinIntakes, proteinGoal, now)

\* The intakes weeklyStats keeps: date >= weekAgo && date <= today, where
\* today is today's midnight and weekAgo the midnight seven days earlier.
RECURSIVE WeekIntakesFrom(_, _, _)
WeekIntakesFrom(i, weekAgo, today) ==
  IF i > Len(proteinIntakes) THEN <<>>
  ELSE (IF proteinIntakes[i].recorded_at >= weekAgo /\ proteinIntakes[i].recorded_at <= today
          THEN <<proteinIntakes[i]>> ELSE <<>>)
       \o WeekIntakesFrom(i + 1, weekAgo, today)

\* Home page: the daily totals weeklyStats builds.
weeklyDailyTotals ==
  LET today == SetHoursZero(now)
      weekAgo == AddDays(today, -7)
  IN TotalsByDate(WeekIntakesFrom(1, weekAgo, today))

\* Home page: weeklyStats.proteinDays
weeklyProteinDays ==
  Cardinality({k \in DOMAIN weeklyDailyTotals : weeklyDailyTotals[k] >= proteinGoal})

\* ---------------------------------------------------------- body metrics
\* JavaScript numbers.  A binary64 value v with 0 <= v < 2^15 is held exactly,
\* as the integer v * 2^60 written with five digits of base 2^15, the least
\* significant first; every value met here is such a multiple of 2^-60.
Digit == 2^15
FromInt(n) == <<0, 0, 0, 0, n>>
IntPart(x) == x[5]

\* a + b, a - b and a * k on the five digits, least significant first.
Add(a, b) ==
  LET s1 == a[1] + b[1]
      s2 == a[2] + b[2] + s1 \div Digit
      s3 == a[3] + b[3] + s2 \div Digit
      s4 == a[4] + b[4] + s3 \div Digit
      s5 == a[5] + b[5] + s4 \div Digit
  IN <<s1 % Digit, s2 % Digit, s3 % Digit, s4 % Digit, s5 % Digit>>

Sub(a, b) ==
  LET t1 == a[1] - b[1]
      t2 == a[2] - b[2] - (IF t1 < 0 THEN 1 ELSE 0)
      t3 == a[3] - b[3] - (IF t2 < 0 THEN 1 ELSE 0)
      t4 == a[4] - b[4] - (IF t3 < 0 THEN 1 ELSE 0)
      t5 == a[5] - b[5] - (IF t4 < 0 THEN 1 ELSE 0)
  IN <<t1 % Digit, t2 % Digit, t3 % Digit, t4 % Digit, t5 % Digit>>

Mul(a, k) ==
  LET p1 == a[1] * k
      p2 == a[2] * k + p1 \div Digit
      p3 == a[3] * k + p2 \div Digit
      p4 == a[4] * k + p3 \div Digit
      p5 == a[5] * k + p4 \div Digit
  IN <<p1 % Digit, p2 % Digit, p3 % Digit, p4 % Digit, p5 % Digit>>

\* Long division by k <= 2^15, from the most significant digit.
Div(a, k) ==
  LET c5 == a[5]
      c4 == (c5 % k) * Digit + a[4]
      c3 == (c4 % k) * Digit + a[3]
      c2 == (c3 % k) * Digit + a[2]
      c1 == (c2 % k) * Digit + a[1]
  IN [quot |-> <<c1 \div k, c2 \div k, c3 \div k, c4 \div k, c5 \div k>>,
      rem |-> c1 % k]

\* The number of significant bits of a digit and of a number.
Bits(n) == IF n = 0 THEN 0 ELSE CHOOSE b \in 1..15 : 2^(b - 1) <= n /\ n < 2^b

BitLength(a) ==
  IF a[5] # 0 THEN 60 + Bits(a[5])
  ELSE IF a[4] # 0 THEN 45 + Bits(a[4])
  ELSE IF a[3] # 0 THEN 30 + Bits(a[3])
  ELSE IF a[2] # 0 THEN 15 + Bits(a[2])
  ELSE Bits(a[1])

\* The quotient first.quot with remainder first.rem of a division by k, cut
\* to 53 significant bits: d bits are dropped, in two steps of at most 15,
\* and the result goes to the nearest value, ties to even.
RoundQuot(first, k, d) ==
  LET d1 == IF d > 15 THEN 15 ELSE d
      d2 == d - d1
      low == Div(first.quot, 2^d1)
      high == Div(low.quot, 2^d2)
      rest == (high.rem * 2^d1 + low.rem) * k + first.rem
      up == \/ 2 * rest > k * 2^d
            \/ 2 * rest = k * 2^d /\ high.quot[1] % 2 = 1
      kept == IF up THEN Add(high.quot, <<1, 0, 0, 0, 0>>) ELSE high.quot
  IN Apply(LAMBDA m : Mul(m, 2^d1), Mul(kept, 2^d2))

\* z / k rounded to 53 significant bits, to nearest, ties to even.
Rounded(z, k) ==
  Apply(LAMBDA first :
          Apply(LAMBDA length :
                  RoundQuot(first, k, IF length > 53 THEN length - 53 ELSE 0),
                BitLength(first.quot)),
        Div(z, k))

\* The binary64 result of an operation whose exact result is z / k.
RoundDiv(z, k) == Apply(LAMBDA x : Rounded(x, k), z)

\* a + b
FloatAdd(a, b) == RoundDiv(Add(a, b), 1)
\* Math.floor(total / 14)
FloorDiv14(total) == IntPart(RoundDiv(total, 14))
\* total % 14, which is exact.
Mod14(total) == Sub(total, FromInt(14 * (IntPart(total) \div 14)))
\* a < b
FloatLess(a, b) ==
  \E i \in 1..Len(a) : a[i] < b[i] /\ \A j \in (i + 1)..Len(a) : a[j] = b[j]

\* A column value as the view reads it.  The stone columns are integers; the
\* pounds columns are numeric and hold the decimal entered, in tenths here,
\* which arrives as the nearest binary64 value.  null is <<>>.
StoneOrZero(st) == IF st = Null THEN 0 ELSE st[1]
PoundsOrZero(lbs) == IF lbs = Null THEN FromInt(0) ELSE RoundDiv(FromInt(lbs[1]), 10)
Truthy(x) == x # Null /\ x[1] # 0

\* Weight view: toTotalLbs(st, lbs) = (st || 0) * 14 + (lbs || 0)
toTotalLbs(st, lbs) == FloatAdd(FromInt(StoneOrZero(st) * 14), PoundsOrZero(lbs))

\* Variant: fat and muscle are added stone to stone and pounds to pounds,
\* with nothing carried from the pounds into the stone.
getEffectiveWeightNoCarry(m) ==
  IF Truthy(m.weight_st) \/ Truthy(m.weight_lbs)
    THEN [st |-> StoneOrZero(m.weight_st), lbs |-> PoundsOrZero(m.weight_lbs)]
    ELSE [st |-> StoneOrZero(m.fat_st) + StoneOrZero(m.muscle_st),
          lbs |-> FloatAdd(PoundsOrZero(m.fat_lbs), PoundsOrZero(m.muscle_lbs))]

\* Weight view: getEffectiveWeight(m): the weight entered, or fat + muscle
\* split into stone and pounds.
getEffectiveWeight(m) ==
  IF Truthy(m.weight_st) \/ Truthy(m.weight_lbs)
    THEN [st |-> StoneOrZero(m.weight_st), lbs |-> PoundsOrZero(m.weight_lbs)]
    ELSE LET fatLbsTotal == toTotalLbs(m.fat_st, m.fat_lbs)
             muscleLbsTotal == toTotalLbs(m.muscle_st, m.muscle_lbs)
             totalLbs == FloatAdd(fatLbsTotal, muscleLbsTotal)
         IN [st |-> FloorDiv14(totalLbs), lbs |-> Mod14(totalLbs)]

\* Weight view: sortedMetrics, newest first; Array.prototype.sort is stable.
RECURSIVE SortedFrom(_, _)
SortedFrom(list, i) ==
  IF i > Len(list) THEN <<>>
  ELSE LET rest == SortedFrom(list, i + 1)
           before == SelectSeq(rest, LAMBDA m : m.recorded_at > list[i].recorded_at)
           after == SelectSeq(rest, LAMBDA m : m.recorded_at <= list[i].recorded_at)
       IN before \o <<list[i]>> \o after

sortedMetrics == SortedFrom(metrics, 1)

\* getTrend: the value compared for an entry, in pounds.
TrendValue(m, type) ==
  IF type = "weight"
    THEN FloatAdd(FromInt(getEffectiveWeight(m).st * 14), getEffectiveWeight(m).lbs)
  ELSE IF type = "fat" THEN toTotalLbs(m.fat_st, m.fat_lbs)
  ELSE toTotalLbs(m.muscle_st, m.muscle_lbs)

\* Weight view: getTrend(currentIndex, type); currentIndex counts from 0.
getTrend(currentIndex, type) ==
  IF currentIndex >= Len(sortedMetrics) - 1 THEN "null"
  ELSE LET currentVal == TrendValue(sortedMetrics[currentIndex + 1], type)
           previousVal == TrendValue(sortedMetrics[currentIndex + 2], type)
       IN IF FloatLess(previousVal, currentVal) THEN "up"
          ELSE IF FloatLess(currentVal, previousVal) THEN "down"
          ELSE "same"

\* settings.formatWeight: the factors, in millionths of a kilogram.
StoneKg == 6350290
PoundKg == 453592

\* formatWeight: totalKg = (st * 6.35029) + (lbs * 0.453592), for pounds given
\* in tenths; the value is in units of 10^-7 kg, where the decimal arithmetic
\* is exact (binary64 is off by less than 10^-12 of a unit).
totalKg(st, lbs) ==
  StoneOrZero(st) * StoneKg * 10 + (IF lbs = Null THEN 0 ELSE lbs[1]) * PoundKg

\* settings.formatWeight(stoneOrKg, lbsOrNull): the text shown, as its parts;
\* toFixed(1) leaves tenths of a kilogram.
formatWeight(st, lbs) ==
  IF weightUnit = "metric"
    THEN [text |-> "kg", tenths |-> (totalKg(st, lbs) + 500000) \div 1000000]
  ELSE IF ~Truthy(st) /\ ~Truthy(lbs) THEN [text |-> "0"]
  ELSE IF ~Truthy(st) THEN [text |-> "lbs", lbs |-> lbs[1]]
  ELSE IF ~Truthy(lbs) THEN [text |-> "st", st |-> st[1]]
  ELSE [text |-> "st lbs", st |-> st[1], lbs |-> lbs[1]]

\* ------------------------------------------------------------------ state
\* The one account of the installation.
UserId == "u1"
\* const enabledPages = ref<ConfigurablePageId[]>(['data', 'nutrition', 'pb'])
DefaultPages == <<"data", "nutrition", "pb">>
\* The tables before anything is stored.
EmptyBackend == [rewards |-> <<>>, protein_intake |-> <<>>, calorie_intake |-> <<>>]

\* The data views are modelled with the user signed in and the application
\* started: the state after the first navigation has run auth.initialize with
\* a stored session and the views have loaded the (empty) tables.
Init ==
  /\ now = 0
  /\ proteinIntakes = <<>>
  /\ calorieIntakes = <<>>
  /\ proteinGoal \in ProteinGoalChoices
  /\ calorieGoal = 2000
  /\ proteinMonth = LocalDate(0)
  /\ rewards = <<>>
  /\ metrics = <<>>
  /\ weightUnit = "imperial"
  /\ backend = EmptyBackend
  /\ home = [rewards |-> <<>>, calorieIntakes |-> <<>>]
  /\ isLoading = FALSE
  /\ enabledPages = DefaultPages
  /\ savedPages = Null
  /\ session = <<UserId>>
  /\ user = <<UserId>>
  /\ authLoading = FALSE
  /\ route = "home"

\* Time passes.
Tick ==
  /\ now < (LastDay + 1) * TicksPerDay - 1
  /\ now' = now + 1
  /\ UNCHANGED <<proteinIntakes, calorieIntakes, proteinGoal, calorieGoal,
                 proteinMonth, rewards,
                 metrics, weightUnit>>
  /\ UNCHANGED loadVars
  /\ UNCHANGED shellVars

Logged == Len(proteinIntakes) + Len(calorieIntakes)

\* Nutrition view: submitProtein, not editing: the row is inserted with
\* recorded_at = now() and loadData reloads the list, newest first.  now() is
\* strictly later than the recorded_at of every row already stored.
SubmitProtein(grams) ==
  /\ Logged < MaxIntakes
  /\ \A i \in 1..Len(proteinIntakes) : proteinIntakes[i].recorded_at < now
  /\ proteinIntakes' = <<[recorded_at |-> now, amount |-> grams]>> \o proteinIntakes
  /\ UNCHANGED <<now, calorieIntakes, proteinGoal, calorieGoal, proteinMonth, rewards,
                 metrics, weightUnit>>
  /\ backend' = [backend EXCEPT !.protein_intake = proteinIntakes']
  /\ UNCHANGED <<home, isLoading>>
  /\ UNCHANGED shellVars

\* Nutrition view: submitCalories, not editing (the calorie side of the
\* views; the specifications below follow the protein side).
SubmitCalories(amount) ==
  /\ Logged < MaxIntakes
  /\ \A i \in 1..Len(calorieIntakes) : calorieIntakes[i].recorded_at < now
  /\ calorieIntakes' = <<[recorded_at |-> now, amount |-> amount]>> \o calorieIntakes
  /\ UNCHANGED <<now, proteinIntakes, proteinGoal, calorieGoal, proteinMonth, rewards,
                 metrics, weightUnit>>
  /\ backend' = [backend EXCEPT !.calorie_intake = calorieIntakes']
  /\ UNCHANGED <<home, isLoading>>
  /\ UNCHANGED shellVars

\* Rewards view: loadData (the lists are reloaded as they are; rewards that
\* reached their target are written as completed and the list is reloaded).
LoadData ==
  /\ rewards' = AutoComplete(rewards)
  /\ UNCHANGED <<now, proteinIntakes, calorieIntakes, proteinGoal, calorieGoal,
                 proteinMonth,
                 metrics, weightUnit>>
  /\ backend' = [backend EXCEPT !.rewards = rewards']
  /\ UNCHANGED <<home, isLoading>>
  /\ UNCHANGED shellVars

\* Rewards view: createReward; the row gets created_at = now(), then loadData.
CreateReward(id, tracking, streak, target) ==
  /\ \A i \in 1..Len(rewards) : rewards[i].id # id
  /\ LET row == [id |-> id, tracking_type |-> tracking, streak_type |-> streak,
                 target_days |-> target, created_at |-> now, completed_at |-> Null,
                 claimed_at |-> Null]
     IN rewards' = AutoComplete(<<row>> \o rewards)
  /\ UNCHANGED <<now, proteinIntakes, calorieIntakes, proteinGoal, calorieGoal,
                 proteinMonth,
                 metrics, weightUnit>>
  /\ backend' = [backend EXCEPT !.rewards = rewards']
  /\ UNCHANGED <<home, isLoading>>
  /\ UNCHANGED shellVars

\* Nutrition view: submitProtein while editing row i: only grams changes.
EditProtein(i, grams) ==
  /\ i \in 1..Len(proteinIntakes)
  /\ proteinIntakes' = [proteinIntakes EXCEPT ![i].amount = grams]
  /\ UNCHANGED <<now, calorieIntakes, proteinGoal, calorieGoal, proteinMonth, rewards,
                 metrics, weightUnit>>
  /\ backend' = [backend EXCEPT !.protein_intake = proteinIntakes']
  /\ UNCHANGED <<home, isLoading>>
  /\ UNCHANGED shellVars

\* Nutrition view: deleteProtein (confirmed), then loadData.
DeleteProtein(i) ==
  /\ i \in 1..Len(proteinIntakes)
  /\ proteinIntakes' = [j \in 1..(Len(proteinIntakes) - 1) |->
                          IF j < i THEN proteinIntakes[j] ELSE proteinIntakes[j + 1]]
  /\ UNCHANGED <<now, calorieIntakes, proteinGoal, calorieGoal, proteinMonth, rewards,
                 metrics, weightUnit>>
  /\ backend' = [backend EXCEPT !.protein_intake = proteinIntakes']
  /\ UNCHANGED <<home, isLoading>>
  /\ UNCHANGED shellVars

\* Nutrition view: saveProteinGoal -> settings.setProteinGoal
SaveProteinGoal(goal) ==
  /\ proteinGoal' = goal
  /\ UNCHANGED <<now, proteinIntakes, calorieIntakes, calorieGoal, proteinMonth, rewards,
                 metrics, weightUnit>>
  /\ UNCHANGED loadVars
  /\ UNCHANGED shellVars

\* newDate.setMonth(newDate.getMonth() + delta): the day of the month is kept
\* and an overflow carries on into the next month.
SetMonth(date, delta) ==
  LET m0 == date[2] + delta
      y == IF m0 < 1 THEN date[1] - 1 ELSE IF m0 > 12 THEN date[1] + 1 ELSE date[1]
      m == IF m0 < 1 THEN m0 + 12 ELSE IF m0 > 12 THEN m0 - 12 ELSE m0
  IN NormalizeDate(y, m, date[3])

\* Nutrition view: prevProteinMonth / nextProteinMonth
PrevProteinMonth ==
  /\ InCalendarRange(SetMonth(proteinMonth, -1))
  /\ proteinMonth' = SetMonth(proteinMonth, -1)
  /\ UNCHANGED <<now, proteinIntakes, calorieIntakes, proteinGoal, calorieGoal, rewards,
                 metrics, weightUnit>>
  /\ UNCHANGED loadVars
  /\ UNCHANGED shellVars

NextProteinMonth ==
  /\ InCalendarRange(SetMonth(proteinMonth, 1))
  /\ proteinMonth' = SetMonth(proteinMonth, 1)
  /\ UNCHANGED <<now, proteinIntakes, calorieIntakes, proteinGoal, calorieGoal, rewards,
                 metrics, weightUnit>>
  /\ UNCHANGED loadVars
  /\ UNCHANGED shellVars

Next ==
  \/ Tick
  \/ \E g \in GramChoices : SubmitProtein(g)
  \/ LoadData
  \/ \E id \in RewardIds, tr \in {"protein"}, st \in StreakTypes, tg \in TargetChoices :
       CreateReward(id, tr, st, tg)

Spec == Init /\ [][Next]_vars

\* The rewards of the shortest target: a reward of either kind is created,
\* intakes are logged, and a reward that reached its target is completed by
\* the next load.
CompletionTargetChoices == {2}

NextCompletion ==
  \/ Tick
  \/ \E g \in GramChoices : SubmitProtein(g)
  \/ LoadData
  \/ \E id \in RewardIds, st \in StreakTypes, tg \in CompletionTargetChoices :
       CreateReward(id, "protein", st, tg)

SpecCompletion == Init /\ [][NextCompletion]_vars

\* The home page: protein and calories are logged and a reward of either
\* tracking type and either streak type is running.
NextHome ==
  \/ Tick
  \/ \E g \in GramChoices : SubmitProtein(g)
  \/ \E c \in CalorieChoices : SubmitCalories(c)
  \/ \E id \in RewardIds, tr \in TrackingTypes, st \in StreakTypes,
        tg \in CompletionTargetChoices :
       CreateReward(id, tr, st, tg)

SpecHome == Init /\ [][NextHome]_vars

\* The nutrition view on its own: logging, editing and deleting intakes,
\* changing the goal and paging through the calendar.
NextNutrition ==
  \/ Tick
  \/ \E g \in NutritionGramChoices : SubmitProtein(g)
  \/ \E i \in 1..MaxIntakes, g \in NutritionGramChoices : EditProtein(i, g)
  \/ \E i \in 1..MaxIntakes : DeleteProtein(i)
  \/ \E g \in ProteinGoalChoices : SaveProteinGoal(g)
  \/ PrevProteinMonth
  \/ NextProteinMonth

SpecNutrition == Init /\ [][NextNutrition]_vars

\* Logging only: intakes of two sizes are entered as time passes.
LoggingGramChoices == {60, 100}

NextLogging ==
  \/ Tick
  \/ \E g \in LoggingGramChoices : SubmitProtein(g)

SpecLogging == Init /\ [][NextLogging]_vars

\* Half the reach of the backward walks and a day.
IdleDays == (MaxOffset + 1) \div 2
\* Goals saved in the long run: parseInt of what the goal form holds, which
\* is 0 for an input such as 0.5 and negative for a negative input.
LongGoalChoices == {-1, 0, 75}
\* A target no consecutive walk can reach.
LongTargetChoices == {MaxOffset + 2}

\* Time passes while nothing else happens: IdleDays days.
Idle ==
  /\ now + IdleDays * TicksPerDay <= LongWaits * IdleDays * TicksPerDay
  /\ now' = now + IdleDays * TicksPerDay
  /\ UNCHANGED <<proteinIntakes, calorieIntakes, proteinGoal, calorieGoal,
                 proteinMonth, rewards,
                 metrics, weightUnit>>
  /\ UNCHANGED loadVars
  /\ UNCHANGED shellVars

\* The views over more than a year: a reward is created, intakes are logged
\* now and then, and the goal is changed.
NextLong ==
  \/ Idle
  \/ \E g \in GramChoices : SubmitProtein(g)
  \/ \E g \in LongGoalChoices : SaveProteinGoal(g)
  \/ LoadData
  \/ \E id \in RewardIds, tr \in {"protein"}, st \in StreakTypes, tg \in LongTargetChoices :
       CreateReward(id, tr, st, tg)

SpecLong == Init /\ [][NextLong]_vars

\* Weight view: submitMetric, not editing: the row is inserted with the form's
\* values (an empty or zero field is stored as null) under the date of the
\* form, today's, and loadMetrics reloads the list, oldest first.
SubmitMetric(weightSt, weightLbs, fatSt, fatLbs, muscleSt, muscleLbs) ==
  /\ Len(metrics) < MaxMetrics
  /\ metrics' = Append(metrics,
       [weight_st |-> weightSt, weight_lbs |-> weightLbs,
        fat_st |-> fatSt, fat_lbs |-> fatLbs,
        muscle_st |-> muscleSt, muscle_lbs |-> muscleLbs,
        recorded_at |-> SetHoursZero(now)])
  /\ UNCHANGED <<now, proteinIntakes, calorieIntakes, proteinGoal, calorieGoal,
                 proteinMonth, rewards, weightUnit>>
  /\ UNCHANGED loadVars
  /\ UNCHANGED shellVars

\* Weight view: deleteMetric (confirmed), then loadMetrics.
DeleteMetric(i) ==
  /\ i \in 1..Len(metrics)
  /\ metrics' = [j \in 1..(Len(metrics) - 1) |->
                   IF j < i THEN metrics[j] ELSE metrics[j + 1]]
  /\ UNCHANGED <<now, proteinIntakes, calorieIntakes, proteinGoal, calorieGoal,
                 proteinMonth, rewards, weightUnit>>
  /\ UNCHANGED loadVars
  /\ UNCHANGED shellVars

\* settings.setWeightUnit(unit)
SetWeightUnit(unit) ==
  /\ weightUnit' = unit
  /\ UNCHANGED <<now, proteinIntakes, calorieIntakes, proteinGoal, calorieGoal,
                 proteinMonth, rewards, metrics>>
  /\ UNCHANGED loadVars
  /\ UNCHANGED shellVars

\* The weight view: weigh-ins are entered as an overall weight or as a fat
\* and muscle breakdown, and deleted; the unit is switched.
NextWeight ==
  \/ \E st \in WeightStoneInputs, lbs \in WeightPoundInputs :
       SubmitMetric(st, lbs, Null, Null, Null, Null)
  \/ \E fst \in FatStoneInputs, flbs \in FatPoundInputs,
        mst \in MuscleStoneInputs, mlbs \in MusclePoundInputs :
       SubmitMetric(Null, Null, fst, flbs, mst, mlbs)
  \/ \E i \in 1..MaxMetrics : DeleteMetric(i)
  \/ \E unit \in WeightUnits : SetWeightUnit(unit)

SpecWeight == Init /\ [][NextWeight]_vars

\* ------------------------------------------------- loads and their errors
\* A query or an update is answered with its rows or with an error; the
\* handlers below take the answers as their input.  The views write through
\* to the tables, so a view that has loaded holds what the tables hold; the
\* rewards list of the rewards view can fall behind (see RewardsLoaded).

\* isRewardComplete(reward) over the intakes just loaded from the tables.
CompleteOn(reward, tables) ==
  ProgressFrom(reward,
    IF reward.tracking_type = "protein" THEN proteinGoal ELSE calorieGoal,
    IF reward.tracking_type = "protein"
      THEN TotalsByDate(tables.protein_intake) ELSE TotalsByDate(tables.calorie_intake),
    now).current >= reward.target_days

\* The answers to the rewards view's loadData: its three queries (all
\* answered, or one of them with an error), the updates that write
\* completed_at, and the reload.
LoadOutcomes == [queries : BOOLEAN, update : BOOLEAN, reload : BOOLEAN]

\* Variant: completed_at is brought in line with the progress, set when the
\* target is reached and cleared when it is not.
RewardsLoadedInLine(tables, o) ==
  IF ~o.queries
    THEN [rewards |-> rewards, proteinIntakes |-> proteinIntakes,
          calorieIntakes |-> calorieIntakes, tables |-> tables]
  ELSE LET loaded == tables.rewards
           due == {i \in 1..Len(loaded) :
                     CompleteOn(loaded[i], tables) <=> loaded[i].completed_at = Null}
           written == [i \in 1..Len(loaded) |->
                         IF i \in due /\ o.update
                           THEN [loaded[i] EXCEPT !.completed_at =
                                   IF loaded[i].completed_at = Null THEN <<now>> ELSE Null]
                           ELSE loaded[i]]
       IN [rewards |-> IF due = {} THEN loaded ELSE IF o.reload THEN written ELSE <<>>,
           proteinIntakes |-> tables.protein_intake,
           calorieIntakes |-> tables.calorie_intake,
           tables |-> [tables EXCEPT !.rewards = written]]

\* Rewards view: loadData over the tables, answered as o says: what the view
\* holds afterwards and what the tables hold.  An error among the three
\* queries is thrown before anything is assigned.  The error of an update is
\* not looked at; the reload's rows are assigned unchecked, data ?? [].
RewardsLoaded(tables, o) ==
  IF ~o.queries
    THEN [rewards |-> rewards, proteinIntakes |-> proteinIntakes,
          calorieIntakes |-> calorieIntakes, tables |-> tables]
  ELSE LET loaded == tables.rewards
           due == {i \in 1..Len(loaded) :
                     loaded[i].completed_at = Null /\ CompleteOn(loaded[i], tables)}
           written == [i \in 1..Len(loaded) |->
                         IF i \in due /\ o.update
                           THEN [loaded[i] EXCEPT !.completed_at = <<now>>]
                           ELSE loaded[i]]
       IN [rewards |-> IF due = {} THEN loaded ELSE IF o.reload THEN written ELSE <<>>,
           proteinIntakes |-> tables.protein_intake,
           calorieIntakes |-> tables.calorie_intake,
           tables |-> [tables EXCEPT !.rewards = written]]

\* The view and the tables take the result of a load.
TakeLoaded(result) ==
  /\ rewards' = result.rewards
  /\ proteinIntakes' = result.proteinIntakes
  /\ calorieIntakes' = result.calorieIntakes
  /\ backend' = result.tables
  /\ isLoading' = FALSE
  /\ UNCHANGED <<now, proteinGoal, calorieGoal, proteinMonth, metrics, weightUnit, home>>
  /\ UNCHANGED shellVars

\* Rewards view: loadData, answered as o says.
LoadDataWith(o) ==
  /\ o \in LoadOutcomes
  /\ TakeLoaded(RewardsLoaded(backend, o))

\* Rewards view: createReward, the insert accepted, then loadData answered
\* as o says.
CreateRewardWith(id, tracking, streak, target, o) ==
  /\ \A i \in 1..Len(backend.rewards) : backend.rewards[i].id # id
  /\ LET row == [id |-> id, tracking_type |-> tracking, streak_type |-> streak,
                 target_days |-> target, created_at |-> now, completed_at |-> Null,
                 claimed_at |-> Null]
     IN TakeLoaded(RewardsLoaded([backend EXCEPT !.rewards = <<row>> \o @], o))

\* Rewards view: claimReward on a reward shown as completed and not claimed,
\* the update accepted, then loadData answered as o says.
ClaimReward(id, o) ==
  /\ \E i \in 1..Len(rewards) :
       rewards[i].id = id /\ rewards[i].completed_at # Null /\ rewards[i].claimed_at = Null
  /\ TakeLoaded(RewardsLoaded(
       [backend EXCEPT !.rewards =
          [i \in 1..Len(backend.rewards) |->
             IF backend.rewards[i].id = id
               THEN [backend.rewards[i] EXCEPT !.claimed_at = <<now>>]
               ELSE backend.rewards[i]]], o))

\* The answers to the two queries of the home page and of the nutrition view.
PairOutcomes == [first : BOOLEAN, second : BOOLEAN]

\* The home page's refs as constructed.
FreshHome == [rewards |-> <<>>, calorieIntakes |-> <<>>]

\* Home page: loadRewards over refs, its rewards query answered as o.first
\* says and its calorie query as o.second: only the rewards error is thrown;
\* the calorie rows are assigned unchecked, data ?? [].
HomeLoaded(refs, tables, o) ==
  IF ~o.first THEN refs
  ELSE [rewards |-> SelectSeq(tables.rewards, LAMBDA r : r.completed_at = Null),
        calorieIntakes |-> IF o.second THEN tables.calorie_intake ELSE <<>>]

\* Home page: mounted, loadRewards runs on the refs as constructed.
LoadRewards(o) ==
  /\ home' = HomeLoaded(FreshHome, backend, o)
  /\ UNCHANGED <<backend, isLoading>>
  /\ UNCHANGED dataVars
  /\ UNCHANGED shellVars

\* Nutrition view: loadData with both kinds tracked, the protein query
\* answered as o.first says and the calorie query as o.second: each assigns
\* its own rows unless it got an error.
NutritionLoadData(o) ==
  /\ proteinIntakes' = IF o.first THEN backend.protein_intake ELSE proteinIntakes
  /\ calorieIntakes' = IF o.second THEN backend.calorie_intake ELSE calorieIntakes
  /\ isLoading' = FALSE
  /\ UNCHANGED <<now, proteinGoal, calorieGoal, proteinMonth, rewards, metrics, weightUnit>>
  /\ UNCHANGED <<backend, home>>
  /\ UNCHANGED shellVars

\* Time passes to the same time of the next day.
Overnight ==
  /\ DayOf(now) < LastDay
  /\ now' = AddDays(now, 1)
  /\ UNCHANGED <<proteinIntakes, calorieIntakes, proteinGoal, calorieGoal,
                 proteinMonth, rewards, metrics, weightUnit>>
  /\ UNCHANGED loadVars
  /\ UNCHANGED shellVars

\* What is typed over an entry that is edited in the rewards runs.
EditGramChoices == {60}

\* The rewards view with the backend answering or failing: entries are
\* logged, edited and deleted and the goal is changed in the nutrition view,
\* rewards are created, completed by a load, and claimed.
NextRewards ==
  \/ Overnight
  \/ \E g \in GramChoices : SubmitProtein(g)
  \/ \E i \in 1..MaxIntakes, g \in EditGramChoices : EditProtein(i, g)
  \/ \E i \in 1..MaxIntakes : DeleteProtein(i)
  \/ \E g \in ProteinGoalChoices : SaveProteinGoal(g)
  \/ \E o \in LoadOutcomes : LoadDataWith(o)
  \/ \E id \in RewardIds, st \in StreakTypes, tg \in CompletionTargetChoices,
        o \in LoadOutcomes :
       CreateRewardWith(id, "protein", st, tg, o)
  \/ \E id \in RewardIds, o \in LoadOutcomes : ClaimReward(id, o)

SpecRewards == Init /\ [][NextRewards]_vars

\* The three loads with the backend answering or failing, over tables that
\* entries and rewards are written to.
NextLoad ==
  \/ Overnight
  \/ \E g \in GramChoices : SubmitProtein(g)
  \/ \E c \in CalorieChoices : SubmitCalories(c)
  \/ \E o \in PairOutcomes : LoadRewards(o)
  \/ \E o \in PairOutcomes : NutritionLoadData(o)
  \/ \E o \in LoadOutcomes : LoadDataWith(o)
  \/ \E id \in RewardIds, st \in StreakTypes, tg \in CompletionTargetChoices,
        o \in LoadOutcomes :
       CreateRewardWith(id, "protein", st, tg, o)

SpecLoad == Init /\ [][NextLoad]_vars

\* ------------------------------------------------------------- the shell
\* The settings store's page list, the auth store and the router.

\* CONFIGURABLE_PAGES.map(p => p.id)
ConfigurablePages == {"data", "nutrition", "pb"}
\* "Don't allow enabling if already at max (3)"
MaxPages == 3

\* list.includes(x)
Includes(list, x) == \E i \in 1..Len(list) : list[i] = x

\* list.indexOf(x), from 1; 0 when x is not in the list.
IndexOf(list, x) ==
  IF Includes(list, x) THEN CHOOSE i \in 1..Len(list) :
                              list[i] = x /\ \A j \in 1..(i - 1) : list[j] # x
  ELSE 0

\* list.splice(index, 1)
Splice(list, index) ==
  [j \in 1..(Len(list) - 1) |-> IF j < index THEN list[j] ELSE list[j + 1]]

\* Variant: the last page can be disabled too.
ToggledNoFloor(pages, pageId) ==
  LET index == IndexOf(pages, pageId)
  IN IF index > 0 THEN Splice(pages, index)
     ELSE IF Len(pages) < MaxPages THEN Append(pages, pageId)
     ELSE pages

\* enabledPages after togglePage(pageId)
Toggled(pages, pageId) ==
  LET index == IndexOf(pages, pageId)
  IN IF index > 0
       THEN (IF Len(pages) > 1 THEN Splice(pages, index) ELSE pages)
     ELSE IF Len(pages) < MaxPages THEN Append(pages, pageId)
     ELSE pages

\* settings.isPageEnabled(pageId)
isPageEnabled(pageId) == Includes(enabledPages, pageId)

\* enabledPages after the store is constructed and initialize() has read
\* what localStorage holds under 'enabledPages'.
InitializedPages(saved) ==
  IF saved = Null THEN DefaultPages
  ELSE LET validParsed == SelectSeq(saved[1], LAMBDA id : id \in ConfigurablePages)
       IN IF Len(validParsed) > 0 /\ Len(validParsed) <= MaxPages
            THEN validParsed ELSE DefaultPages

\* The routes of the router, by name; "unmatched" stands for a path no route
\* record matches (its meta is empty).
Routes == {"home", "login", "data", "protein", "pb", "pb-detail", "goals", "settings",
           "unmatched"}
RequiresAuth(r) == r \in Routes \ {"login", "unmatched"}
Guest(r) == r = "login"

\* auth.isAuthenticated
isAuthenticated(u) == u # Null

\* router.beforeEach for a navigation to `to` with auth.user = u: the route
\* the navigation ends on (the redirect is guarded again and passes).
Guarded(to, u) ==
  IF RequiresAuth(to) /\ ~isAuthenticated(u) THEN "login"
  ELSE IF Guest(to) /\ isAuthenticated(u) THEN "home"
  ELSE to

\* auth.user once the guard has waited for initialize(), if auth.isLoading.
UserAtGuard == IF authLoading THEN session ELSE user

\* The page is loaded in the browser: the stores are constructed anew and
\* settings.initialize() runs; localStorage and the client's session persist.
StartApp ==
  /\ enabledPages' = InitializedPages(savedPages)
  /\ user' = Null
  /\ authLoading' = TRUE
  /\ route' = ""
  /\ UNCHANGED <<savedPages, session>>
  /\ UNCHANGED dataVars
  /\ UNCHANGED loadVars

\* router.push(to) with the navigation guard.
Navigate(to) ==
  /\ user' = UserAtGuard
  /\ authLoading' = FALSE
  /\ route' = Guarded(to, UserAtGuard)
  /\ UNCHANGED <<enabledPages, savedPages, session>>
  /\ UNCHANGED dataVars
  /\ UNCHANGED loadVars

\* Login view: handleSubmit with valid credentials: auth.signIn, then
\* router.push('/').
SignIn ==
  /\ route = "login"
  /\ session' = <<UserId>>
  /\ user' = <<UserId>>
  /\ route' = Guarded("home", <<UserId>>)
  /\ UNCHANGED <<enabledPages, savedPages, authLoading>>
  /\ UNCHANGED dataVars
  /\ UNCHANGED loadVars

\* A Sign Out button: auth.signOut() and nothing else.
SignOut ==
  /\ RequiresAuth(route) \/ route = "unmatched"
  /\ isAuthenticated(user)
  /\ session' = Null
  /\ user' = Null
  /\ UNCHANGED <<enabledPages, savedPages, authLoading, route>>
  /\ UNCHANGED dataVars
  /\ UNCHANGED loadVars

\* The client reports a change of the session that did not come from this
\* page (the session ended, or began in another tab); the listener that
\* initialize() registered copies it into auth.user.
AuthStateChange(s) ==
  /\ s # session
  /\ session' = s
  /\ user' = IF authLoading THEN user ELSE s
  /\ UNCHANGED <<enabledPages, savedPages, authLoading, route>>
  /\ UNCHANGED dataVars
  /\ UNCHANGED loadVars

\* Settings view: settings.togglePage(pageId)
TogglePage(pageId) ==
  /\ route = "settings"
  /\ enabledPages' = Toggled(enabledPages, pageId)
  /\ savedPages' = <<enabledPages'>>
  /\ UNCHANGED <<session, user, authLoading, route>>
  /\ UNCHANGED dataVars
  /\ UNCHANGED loadVars

NextShell ==
  \/ StartApp
  \/ \E to \in Routes : Navigate(to)
  \/ SignIn
  \/ SignOut
  \/ \E s \in {Null, <<UserId>>} : AuthStateChange(s)
  \/ \E p \in ConfigurablePages : TogglePage(p)

\* The page is about to be loaded for the first time, with or without a
\* session kept from an earlier visit.
InitShell ==
  /\ now = 0
  /\ proteinIntakes = <<>>
  /\ calorieIntakes = <<>>
  /\ proteinGoal \in ProteinGoalChoices
  /\ calorieGoal = 2000
  /\ proteinMonth = LocalDate(0)
  /\ rewards = <<>>
  /\ metrics = <<>>
  /\ weightUnit = "imperial"
  /\ backend = EmptyBackend
  /\ home = [rewards |-> <<>>, calorieIntakes |-> <<>>]
  /\ isLoading = TRUE
  /\ enabledPages = DefaultPages
  /\ savedPages = Null
  /\ session \in {Null, <<UserId>>}
  /\ user = Null
  /\ authLoading = TRUE
  /\ route = ""

SpecShell == InitShell /\ [][NextShell]_vars

\* ------------------------------------------------------- reference notions
\* What the claims speak of, stated over day numbers and index sets rather
\* than through the bucketed maps.
Days == 0..LastDay

RECURSIVE SumAmounts(_, _)
SumAmounts(intakes, indices) ==
  IF indices = {} THEN 0
  ELSE LET i == CHOOSE j \in indices : TRUE
       IN intakes[i].amount + SumAmounts(intakes, indices \ {i})

\* The sum of the values of the entries recorded on day number `day`.
RefDayTotal(intakes, day) ==
  SumAmounts(intakes, {i \in 1..Len(intakes) : DayOf(intakes[i].recorded_at) = day})

RefMet(day) == RefDayTotal(proteinIntakes, day) >= proteinGoal

\* Length of the run of goal-met days ending at `day`, going backward and
\* not going before day `start`.
RECURSIVE RefRun(_, _)
RefRun(day, start) ==
  IF day < start \/ ~RefMet(day) THEN 0 ELSE 1 + RefRun(day - 1, start)

RefMetCount(from, to) == Cardinality({d \in from..to : d \in Days /\ RefMet(d)})

RewardSet == {rewards[i] : i \in 1..Len(rewards)}
StartDay(r) == DayOf(r.created_at)
Today == DayOf(now)
AnchorDay(r) == IF r.completed_at = Null THEN Today ELSE DayOf(r.completed_at[1])
Consecutive(r) == r.streak_type = "consecutive"
\* The home page loads only the rewards that are not completed.
HomeRewards == {r \in RewardSet : r.completed_at = Null}

\* ------------------------------------------------------------------ claims
\* C1: anchor leniency.  For a consecutive reward whose anchor day is below
\* the goal, the result is the number of consecutive goal-met days ending at
\* the day before the anchor (the anchor adds nothing and does not end the
\* walk), in the rewards view and on the home page.
C1_AnchorLeniency ==
  /\ \A r \in RewardSet :
       (Consecutive(r) /\ ~RefMet(AnchorDay(r)))
         => calculateRewardProgress(r).current = RefRun(AnchorDay(r) - 1, StartDay(r))
  /\ \A r \in HomeRewards :
       (Consecutive(r) /\ ~RefMet(Today))
         => getRewardProgress(r).current = RefRun(Today - 1, StartDay(r))

\* Met on D-1, D-2, D-3, not on the anchor D: the result is 3.
C1_Witness ==
  \E r \in HomeRewards :
    /\ Consecutive(r)
    /\ Today >= 3
    /\ StartDay(r) <= Today - 3
    /\ ~RefMet(Today)
    /\ \A k \in 1..3 : RefMet(Today - k)
    /\ calculateRewardProgress(r).current = 3
    /\ getRewardProgress(r).current = 3

\* C2: break.  An unmet day at an offset i > 0 from the anchor ends the walk:
\* nothing at or beyond that offset is counted, so the result is at most the
\* number of goal-met days among the offsets before i.
C2_BreakAtGap ==
  \A r \in RewardSet :
    Consecutive(r) =>
      \A i \in 1..LastDay :
        (AnchorDay(r) - i >= StartDay(r) /\ ~RefMet(AnchorDay(r) - i))
          => calculateRewardProgress(r).current
               <= RefMetCount(AnchorDay(r) - i + 1, AnchorDay(r))

\* The anchor is met, the day before is not, the day before that is met and
\* is not before the start: the result is 1.
C2_Witness ==
  \E r \in RewardSet :
    /\ Consecutive(r)
    /\ StartDay(r) <= AnchorDay(r) - 2
    /\ RefMet(AnchorDay(r))
    /\ ~RefMet(AnchorDay(r) - 1)
    /\ RefMet(AnchorDay(r) - 2)
    /\ calculateRewardProgress(r).current = 1

\* C3: start bound.  For every start day and anchor day, the consecutive
\* walk counts no day before the start: the result is at most the number of
\* goal-met days in [start, anchor], hence at most the number of days in that
\* range, and 0 when the anchor is before the start.
C3_StartBound ==
  /\ LET totals == proteinTotalsByDate
         met == {d \in Days : RefMet(d)}
     IN \A s \in Days, a \in Days :
          LET n == ConsecutiveFrom(totals, proteinGoal,
                                   s * TicksPerDay, a * TicksPerDay, 0, 0)
          IN /\ n <= Cardinality(met \cap (s..a))
             /\ n <= (IF a < s THEN 0 ELSE a - s + 1)
  /\ \A r \in RewardSet :
       Consecutive(r) =>
         calculateRewardProgress(r).current <= AnchorDay(r) - StartDay(r) + 1
  /\ \A r \in HomeRewards :
       Consecutive(r) =>
         getRewardProgress(r).current <= Today - StartDay(r) + 1

\* The day before the start is met and so is every day from the start to
\* the anchor: the walk stops at the start.
C3_Witness ==
  \E r \in RewardSet :
    /\ Consecutive(r)
    /\ StartDay(r) >= 1
    /\ \A d \in (StartDay(r) - 1)..AnchorDay(r) : RefMet(d)
    /\ calculateRewardProgress(r).current = AnchorDay(r) - StartDay(r) + 1

\* C4: cumulative mode.  The result is the number of days d with
\* start <= d <= today whose total meets the goal, the creation day counted
\* with all of its intakes.
C4_Cumulative ==
  /\ \A r \in RewardSet :
       ~Consecutive(r) =>
         calculateRewardProgress(r).current = RefMetCount(StartDay(r), Today)
  /\ \A r \in HomeRewards :
       ~Consecutive(r) =>
         getRewardProgress(r).current = RefMetCount(StartDay(r), Today)

\* The creation day is met by an intake logged before the reward was created,
\* today is met too, and a met day before the creation day is left out.
C4_Witness ==
  \E r \in RewardSet :
    /\ ~Consecutive(r)
    /\ \E i \in 1..Len(proteinIntakes) :
         /\ DayOf(proteinIntakes[i].recorded_at) = StartDay(r)
         /\ proteinIntakes[i].recorded_at < r.created_at
    /\ RefMet(StartDay(r))
    /\ Today > StartDay(r)
    /\ RefMet(Today)
    /\ \E d \in Days : d < StartDay(r) /\ RefMet(d)
    /\ calculateRewardProgress(r).current = 2

\* The calendar date of a day number, by counting days forward from Epoch.
RECURSIVE RefDate(_)
RefDate(day) ==
  IF day = 0 THEN Epoch
  ELSE LET p == RefDate(day - 1)
       IN IF p[3] < DaysInMonth(p[1], p[2]) THEN <<p[1], p[2], p[3] + 1>>
          ELSE IF p[2] < 12 THEN <<p[1], p[2] + 1, 1>>
          ELSE <<p[1] + 1, 1, 1>>

Indices(intakes) == 1..Len(intakes)

\* The sum of the values of the entries whose calendar date is `date`.
RefTotalOnDate(intakes, date) ==
  SumAmounts(intakes, {i \in Indices(intakes) : RefDate(DayOf(intakes[i].recorded_at)) = date})

RECURSIVE SumOfTotals(_, _)
SumOfTotals(totals, keys) ==
  IF keys = {} THEN 0
  ELSE LET k == CHOOSE x \in keys : TRUE
       IN totals[k] + SumOfTotals(totals, keys \ {k})

\* C5: bucketing sum invariant.  The values of the daily-totals map add up
\* to the sum of the values of all entries.
C5_BucketSum ==
  SumOfTotals(proteinTotalsByDate, DOMAIN proteinTotalsByDate)
    = SumAmounts(proteinIntakes, Indices(proteinIntakes))

\* Two entries on one day and a third on another day.
C5_Witness ==
  /\ \E i, j, k \in Indices(proteinIntakes) :
       /\ i # j
       /\ DayOf(proteinIntakes[i].recorded_at) = DayOf(proteinIntakes[j].recorded_at)
       /\ DayOf(proteinIntakes[k].recorded_at) # DayOf(proteinIntakes[i].recorded_at)
  /\ Cardinality(DOMAIN proteinTotalsByDate) = 2
  /\ SumOfTotals(proteinTotalsByDate, DOMAIN proteinTotalsByDate) >= 3 * 60

\* C6: the keys of the map are exactly the calendar dates of the entries,
\* the total under a key is the sum of the values of exactly the entries of
\* that date, and an empty list gives an empty map.
C6_BucketPerDate ==
  /\ DOMAIN proteinTotalsByDate
       = {RefDate(DayOf(proteinIntakes[i].recorded_at)) : i \in Indices(proteinIntakes)}
  /\ \A k \in DOMAIN proteinTotalsByDate :
       proteinTotalsByDate[k] = RefTotalOnDate(proteinIntakes, k)
  /\ (proteinIntakes = <<>> => proteinTotalsByDate = EmptyTotals)

\* Entries late on one day and early on the next but one: two keys, none for
\* the day between, and the two entries of the first day under one key.
C6_Witness ==
  \E i, j, k \in Indices(proteinIntakes) :
    /\ i # j
    /\ DayOf(proteinIntakes[i].recorded_at) = DayOf(proteinIntakes[j].recorded_at)
    /\ DayOf(proteinIntakes[k].recorded_at) = DayOf(proteinIntakes[i].recorded_at) + 2
    /\ RefDate(DayOf(proteinIntakes[i].recorded_at) + 1) \notin DOMAIN proteinTotalsByDate
    /\ proteinTotalsByDate[RefDate(DayOf(proteinIntakes[i].recorded_at))]
         = proteinIntakes[i].amount + proteinIntakes[j].amount

\* The number of days of the displayed month whose total meets the goal.
\* Every entry lies on a day of Days; a day of the month outside Days has
\* total 0.
RefMonthMetCount ==
  LET inMonth == {d \in Days : /\ RefDate(d)[1] = proteinMonth[1]
                               /\ RefDate(d)[2] = proteinMonth[2]}
      others == DaysInMonth(proteinMonth[1], proteinMonth[2]) - Cardinality(inMonth)
  IN Cardinality({d \in inMonth : RefMet(d)}) + (IF 0 >= proteinGoal THEN others ELSE 0)

\* The windowed total weeklyStats compares: the entries of day `day` recorded
\* from the midnight seven days ago up to today's midnight.
RefWeekTotal(day) ==
  SumAmounts(proteinIntakes,
    {i \in Indices(proteinIntakes) :
       /\ DayOf(proteinIntakes[i].recorded_at) = day
       /\ proteinIntakes[i].recorded_at >= (Today - 7) * TicksPerDay
       /\ proteinIntakes[i].recorded_at <= Today * TicksPerDay})

\* The consecutive result and the cumulative count of a reward.
RefConsecutive(r) ==
  (IF RefMet(AnchorDay(r)) THEN 1 ELSE 0) + RefRun(AnchorDay(r) - 1, StartDay(r))
RefCumulative(r) == RefMetCount(StartDay(r), Today)

\* C7: goal threshold.  Every comparison site takes a day as met exactly
\* when the total it looks at is >= the goal: the calendar's day marking, the
\* monthly met-count, the home-page streak, the weekly protein-days count and
\* both reward modes.
C7_Threshold ==
  /\ \A d \in Days :
       (RefDate(d)[1] = proteinMonth[1] /\ RefDate(d)[2] = proteinMonth[2])
         => (proteinDayMetGoal(RefDate(d)[3]) <=> RefDayTotal(proteinIntakes, d) >= proteinGoal)
  /\ proteinDaysMetGoalThisMonth = RefMonthMetCount
  /\ proteinStreak = (IF RefMet(Today) THEN 1 ELSE 0) + RefRun(Today - 1, Today - MaxOffset)
  /\ weeklyProteinDays
       = Cardinality({d \in (Today - 7)..Today : RefWeekTotal(d) >= proteinGoal})
  /\ \A r \in RewardSet :
       calculateRewardProgress(r).current
         = IF Consecutive(r) THEN RefConsecutive(r) ELSE RefCumulative(r)

\* Today's total equals the goal exactly and every site counts today.
C7_Witness ==
  /\ RefDayTotal(proteinIntakes, Today) = proteinGoal
  /\ proteinMonth[1] = RefDate(Today)[1] /\ proteinMonth[2] = RefDate(Today)[2]
  /\ proteinDayMetGoal(RefDate(Today)[3])
  /\ proteinDaysMetGoalThisMonth = 1
  /\ proteinStreak = 1
  /\ weeklyProteinDays = 1
  /\ \E r \in RewardSet : calculateRewardProgress(r).current = 1

\* C8: the monthly met-count is the number of days k of the displayed month
\* whose total under year-month-k meets the goal.
C8_MonthMetCount ==
  proteinDaysMetGoalThisMonth = RefMonthMetCount

\* 100 and 60 on 2024-01-01, 150 on 2024-01-02, goal 150: January 2024 has 2.
C8_Witness ==
  /\ proteinMonth[1] = 2024 /\ proteinMonth[2] = 1
  /\ proteinGoal = 150
  /\ Len(proteinIntakes) = 3
  /\ \E i, j, k \in Indices(proteinIntakes) :
       /\ RefDate(DayOf(proteinIntakes[i].recorded_at)) = <<2024, 1, 1>>
       /\ proteinIntakes[i].amount = 100
       /\ RefDate(DayOf(proteinIntakes[j].recorded_at)) = <<2024, 1, 1>>
       /\ proteinIntakes[j].amount = 60
       /\ RefDate(DayOf(proteinIntakes[k].recorded_at)) = <<2024, 1, 2>>
       /\ proteinIntakes[k].amount = 150
  /\ proteinDaysMetGoalThisMonth = 2

\* C9: the consecutive algorithm is used exactly for streak type
\* 'consecutive', the cumulative count otherwise, and the reward is complete
\* exactly when current >= target_days.
C9_DispatchAndComplete ==
  \A r \in RewardSet :
    LET expected == IF r.streak_type = "consecutive"
                      THEN RefConsecutive(r) ELSE RefCumulative(r)
    IN /\ calculateRewardProgress(r).current = expected
       /\ isRewardComplete(r) <=> expected >= r.target_days

\* A reward on which the two algorithms differ and whose count has reached
\* the target exactly.
C9_Witness ==
  \E r \in RewardSet :
    /\ RefConsecutive(r) # RefCumulative(r)
    /\ calculateRewardProgress(r).current = r.target_days
    /\ isRewardComplete(r)

\* C10: the percentage is min(100, 100 * current / target_days): between 0
\* and 100, and 100 exactly when current >= target_days.
PercentageIs(p, c, t) ==
  /\ p.den > 0
  /\ p.num * t = (IF 100 * c <= 100 * t THEN 100 * c ELSE 100 * t) * p.den
  /\ 0 <= p.num /\ p.num <= 100 * p.den
  /\ (p.num = 100 * p.den) <=> (c >= t)

C10_Percentage ==
  /\ \A r \in RewardSet :
       LET progress == calculateRewardProgress(r)
       IN /\ r.target_days >= 1
          /\ PercentageIs(progress.percentage, progress.current, r.target_days)
  /\ \A r \in HomeRewards :
       LET progress == getRewardProgress(r)
       IN PercentageIs(progress.percentage, progress.current, r.target_days)

\* The count has passed the target and the percentage stays at 100.
C10_Witness ==
  \E r \in RewardSet :
    /\ calculateRewardProgress(r).current > r.target_days
    /\ calculateRewardProgress(r).percentage.num
         = 100 * calculateRewardProgress(r).percentage.den
\* C11: the 366-day cap.  The consecutive walk looks at the offsets 0 .. 365
\* only: the result never exceeds 366, and it is 366 when every day of a
\* range of more than 366 days meets the goal; the home-page streak, today
\* and 365 days back, never exceeds 366 either.
MaxSteps == MaxOffset + 1

C11_WalkCap ==
  /\ \A r \in RewardSet :
       Consecutive(r) =>
         LET current == calculateRewardProgress(r).current
         IN /\ current <= MaxSteps
            /\ (proteinGoal <= 0 /\ AnchorDay(r) - StartDay(r) + 1 > MaxSteps)
                 => current = MaxSteps
  /\ \A r \in HomeRewards :
       Consecutive(r) =>
         LET current == getRewardProgress(r).current
         IN /\ current <= MaxSteps
            /\ (proteinGoal <= 0 /\ Today - StartDay(r) + 1 > MaxSteps)
                 => current = MaxSteps
  /\ proteinStreak <= MaxSteps

\* Every day from the creation day to today meets the goal, the range has
\* more than 366 days, and the result is 366, short of the target of 367.
C11_Witness ==
  \E r \in HomeRewards :
    /\ Consecutive(r)
    /\ proteinGoal <= 0
    /\ Today - StartDay(r) + 1 > MaxSteps
    /\ calculateRewardProgress(r).current = MaxSteps
    /\ getRewardProgress(r).current = MaxSteps
    /\ ~isRewardComplete(r)
    /\ proteinStreak = MaxSteps
\* The list `intakes` in the order p, a permutation of its indices.
Shuffled(intakes, p) == [i \in Indices(intakes) |-> intakes[p[i]]]

\* C12: order independence.  For every permutation of the entry list, the
\* bucketed map is the same map, and so are the cumulative count, the
\* consecutive streak and the monthly met-count computed from it.
C12_OrderIndependent ==
  LET totals == proteinTotalsByDate
      today == SetHoursZero(now)
      maps == {TotalsByDate(Shuffled(proteinIntakes, p)) :
                 p \in Permutations(Indices(proteinIntakes))}
  IN /\ maps = {totals}
     /\ \A shuffled \in maps :
          /\ AccumulativeFrom(shuffled, proteinGoal, 0, today)
               = AccumulativeFrom(totals, proteinGoal, 0, today)
          /\ ConsecutiveFrom(shuffled, proteinGoal, 0, today, 0, 0)
               = ConsecutiveFrom(totals, proteinGoal, 0, today, 0, 0)
          /\ CountMetFrom(shuffled, 1) = proteinDaysMetGoalThisMonth

\* Three entries of different values, two of them on one day, in a list that
\* has an order other than its own, with a day that meets the goal.
C12_Witness ==
  /\ Len(proteinIntakes) = 3
  /\ \E i, j, k \in Indices(proteinIntakes) :
       /\ proteinIntakes[i].amount # proteinIntakes[j].amount
       /\ DayOf(proteinIntakes[i].recorded_at) = DayOf(proteinIntakes[j].recorded_at)
       /\ DayOf(proteinIntakes[k].recorded_at) # DayOf(proteinIntakes[i].recorded_at)
  /\ \E p \in Permutations(Indices(proteinIntakes)) :
       Shuffled(proteinIntakes, p) # proteinIntakes
  /\ AccumulativeFrom(proteinTotalsByDate, proteinGoal, 0, SetHoursZero(now)) >= 1
  /\ ConsecutiveFrom(proteinTotalsByDate, proteinGoal, 0, SetHoursZero(now), 0, 0) >= 1
  /\ proteinDaysMetGoalThisMonth >= 1
\* The weigh-ins whose effective weight is the split of a total: no weight
\* entered directly.
SplitMetrics ==
  {metrics[i] : i \in {j \in 1..Len(metrics) :
                         ~Truthy(metrics[j].weight_st) /\ ~Truthy(metrics[j].weight_lbs)}}
\* Those that give the split a single stone and pounds pair, 0 <= pounds < 14.
PairMetrics ==
  {m \in SplitMetrics : /\ m.muscle_st = Null /\ m.muscle_lbs = Null
                        /\ (m.fat_lbs # Null => m.fat_lbs[1] < 140)}
\* s * 14 + p as a number, and the total a weigh-in's split starts from.
PairTotal(st, lbs) == FloatAdd(FromInt(StoneOrZero(st) * 14), PoundsOrZero(lbs))
SplitTotal(m) == FloatAdd(PairTotal(m.fat_st, m.fat_lbs), PairTotal(m.muscle_st, m.muscle_lbs))
InPoundsRange(x) ==
  /\ \A i \in 1..Len(x) : x[i] >= 0 /\ x[i] < Digit
  /\ FloatLess(x, FromInt(14))

C14_KgLinear ==
  \A j \in 1..Len(metrics) :
    totalKg(metrics[j].weight_st, metrics[j].weight_lbs)
      = (StoneOrZero(metrics[j].weight_st) * 14 * 10
           + (IF metrics[j].weight_lbs = Null THEN 0 ELSE metrics[j].weight_lbs[1]))
        * PoundKg

\* C15: a date with no entries has total 0, and with no entries at all and a
\* goal above 0 the home streak, the weekly figure, the monthly met-count,
\* today's totals and the progress of every reward, consecutive or
\* cumulative, in either view, are 0.
C15_EmptyData ==
  /\ \A d \in (-1)..(LastDay + 1) :
       (\A i \in Indices(proteinIntakes) : DayOf(proteinIntakes[i].recorded_at) # d)
         => Lookup(proteinTotalsByDate, DateKey(d * TicksPerDay)) = 0
  /\ calorieIntakes = <<>> => todayCalories = 0
  /\ (proteinIntakes = <<>> /\ proteinGoal > 0) =>
       /\ proteinTotalsByDate = EmptyTotals
       /\ proteinStreak = 0
       /\ weeklyProteinDays = 0
       /\ proteinDaysMetGoalThisMonth = 0
       /\ todayProtein = 0
       /\ \A r \in RewardSet :
            /\ calculateRewardProgress(r).current = 0
            /\ calculateRewardProgress(r).percentage.num = 0
            /\ getRewardProgress(r).current = 0
            /\ getRewardProgress(r).percentage.num = 0

\* Nothing is logged by the last day, and a consecutive reward created on
\* the first day is shown.
C15_Witness ==
  /\ proteinIntakes = <<>>
  /\ proteinGoal > 0
  /\ Today = LastDay
  /\ \E r \in RewardSet : r.streak_type = "consecutive" /\ StartDay(r) = 0

\* C17: every day of the displayed month, the days after today included,
\* adds 1 to the monthly met-count exactly when its bucketed total meets the
\* goal, so the count is the number of such days whether or not they are
\* future days.
C17_FutureDaysCounted ==
  Apply(LAMBDA totals :
          /\ \A day \in 1..proteinDaysInMonth :
               CountMetFrom(totals, day) - CountMetFrom(totals, day + 1)
                 = (IF Lookup(totals, getProteinDateKey(day)) >= proteinGoal THEN 1 ELSE 0)
          /\ proteinDaysMetGoalThisMonth
               = Cardinality({day \in 1..proteinDaysInMonth :
                               Lookup(totals, getProteinDateKey(day)) >= proteinGoal}),
        proteinTotalsByDate)

\* With a goal of 0 or less on the last but one day of the month, the last
\* day is a future day that meets the goal, and the count is the whole month.
C17_Witness ==
  /\ proteinGoal <= 0
  /\ ~isProteinFuture(proteinDaysInMonth - 1)
  /\ isProteinFuture(proteinDaysInMonth)
  /\ proteinDayMetGoal(proteinDaysInMonth)
  /\ proteinDaysMetGoalThisMonth = proteinDaysInMonth

\* The days a consecutive walk of reward r can count at most: those from the
\* start day to the anchor day, and no more than MaxOffset + 1.
WalkedDays(r) ==
  IF AnchorDay(r) - StartDay(r) + 1 > MaxOffset + 1 THEN MaxOffset + 1
  ELSE AnchorDay(r) - StartDay(r) + 1

\* The result of the goal rule for the rewards: with a goal above 0 no day
\* without entries is met; with a goal of 0 or less every day is met, the
\* monthly met-count is the number of days of the month, the cumulative count
\* the number of days from the start day to today and the consecutive result
\* of a reward, in both views, the number of days it walks.
GoalRuleOfRewards ==
  Apply(LAMBDA totals :
          /\ proteinGoal > 0 =>
               \A day \in 1..proteinDaysInMonth :
                 getProteinDateKey(day) \notin DOMAIN totals => ~proteinDayMetGoal(day)
          /\ proteinGoal <= 0 =>
               /\ \A day \in 1..proteinDaysInMonth : proteinDayMetGoal(day)
               /\ proteinDaysMetGoalThisMonth = proteinDaysInMonth
               /\ \A r \in RewardSet :
                    calculateRewardProgress(r).current
                      = IF Consecutive(r) THEN WalkedDays(r) ELSE Today - StartDay(r) + 1
               /\ \A r \in HomeRewards :
                    getRewardProgress(r).current
                      = IF Consecutive(r) THEN WalkedDays(r) ELSE Today - StartDay(r) + 1,
        proteinTotalsByDate)

\* C18: days with no entries are not met when the goal is above 0, and a
\* goal of 0 or less makes every day met at every aggregate: the monthly
\* met-count, the cumulative count, the consecutive results of the rewards
\* and the home streak, which then walks all of its MaxOffset + 1 days.
C18_GoalRule ==
  /\ GoalRuleOfRewards
  /\ proteinGoal <= 0 => proteinStreak = MaxOffset + 1

\* The consecutive result anchored at day `anchor` for reward r.
AnchoredAt(r, anchor) ==
  (IF RefMet(anchor) THEN 1 ELSE 0) + RefRun(anchor - 1, StartDay(r))

\* A step that leaves reward r, the goal and the totals of every day up to
\* r's completion day as they are.
OnlyLaterDaysChange(r) ==
  /\ r \in RewardSet'
  /\ proteinGoal' = proteinGoal
  /\ \A d \in 0..DayOf(r.completed_at[1]) :
       RefDayTotal(proteinIntakes', d) = RefDayTotal(proteinIntakes, d)

\* The consecutive result of every reward is anchored at today while
\* completed_at is unset and at the local date of completed_at once set.
AnchoredResults ==
  \A r \in RewardSet :
    Consecutive(r) =>
      calculateRewardProgress(r).current
        = IF r.completed_at = Null THEN AnchoredAt(r, DayOf(now))
          ELSE AnchoredAt(r, DayOf(r.completed_at[1]))

\* calculateRewardProgress(r) as evaluated after the step.
ProgressAfter(r) ==
  Apply(LAMBDA totals :
          ProgressFrom(r, IF r.tracking_type = "protein" THEN proteinGoal' ELSE calorieGoal',
                       totals, now'),
        IF r.tracking_type = "protein"
          THEN TotalsByDate(proteinIntakes') ELSE TotalsByDate(calorieIntakes'))

\* C19: the consecutive result of a reward is anchored at today while
\* completed_at is unset and at the local date of completed_at once it is
\* set, in every state a step is taken from; and for a completed consecutive reward
\* no step that changes only the clock or the totals of days after the
\* completion date changes the progress reported.
C19_CompletionAnchor ==
  [][/\ AnchoredResults
     /\ \A r \in RewardSet :
          (Consecutive(r) /\ r.completed_at # Null /\ OnlyLaterDaysChange(r))
            => ProgressAfter(r) = calculateRewardProgress(r)]_vars

\* A consecutive reward completed on an earlier day with 2 days, the day
\* after its completion being met as well: the result is still 2, and a walk
\* from today would give 3.
C19_Witness ==
  \E r \in RewardSet :
    /\ Consecutive(r) /\ r.completed_at # Null
    /\ DayOf(r.completed_at[1]) < Today
    /\ RefMet(DayOf(r.completed_at[1]) + 1)
    /\ calculateRewardProgress(r).current = 2
    /\ getRewardProgress(r).current = 3

\* Length of the maximal run of days of `met` ending at `day` and going
\* backward, not going before day `start` and at most `left` days long.
RECURSIVE RefRunCut(_, _, _, _)
RefRunCut(met, day, start, left) ==
  IF left = 0 \/ day < start \/ day \notin met THEN 0
  ELSE 1 + RefRunCut(met, day - 1, start, left - 1)

\* The consecutive result for start day s and anchor day a, `met` being the
\* goal-met days.
Characterised(met, s, a) ==
  (IF a \in met /\ a >= s THEN 1 ELSE 0) + RefRunCut(met, a - 1, s, MaxOffset)

\* The goal-met days: with a goal above 0, days that have entries.
MetDays == {d \in Days : RefMet(d)}

\* C20: for every start day and anchor day, the consecutive result on the
\* logged totals is 1 if the anchor day is met and not before the start,
\* else 0, plus the length of the maximal run of goal-met days ending the day
\* before the anchor, cut at the start day and at offset MaxOffset.
C20_Characterisation ==
  Apply(LAMBDA met :
          Apply(LAMBDA totals :
                  \A s \in Days, a \in Days :
                    ConsecutiveFrom(totals, proteinGoal,
                                    s * TicksPerDay, a * TicksPerDay, 0, 0)
                      = Characterised(met, s, a),
                proteinTotalsByDate),
        MetDays)

\* Days 0, 1 and 3 are met and day 2 is not: anchored at day 3 the result
\* is 1, anchored at day 2 it is 2 from either of the first two start days
\* and 1 from start day 1, and anchored at day 1 with start day 2 it is 0.
C20_Witness ==
  /\ RefMet(0) /\ RefMet(1) /\ ~RefMet(2) /\ RefMet(3)
  /\ ConsecutiveFrom(proteinTotalsByDate, proteinGoal, 0, 3 * TicksPerDay, 0, 0) = 1
  /\ ConsecutiveFrom(proteinTotalsByDate, proteinGoal, 0, 2 * TicksPerDay, 0, 0) = 2
  /\ ConsecutiveFrom(proteinTotalsByDate, proteinGoal, TicksPerDay, 2 * TicksPerDay, 0, 0) = 1
  /\ ConsecutiveFrom(proteinTotalsByDate, proteinGoal, 2 * TicksPerDay, TicksPerDay, 0, 0) = 0

\* C21: day rollover.  While today D is below the goal, the streak shown (the
\* home-page streak, and a running consecutive reward's count from its start
\* day) is the run of met days ending at D - 1; a step that brings D up to the
\* goal raises it by exactly 1 (below the cap of 366); and once D - 1 has
\* ended unmet no day up to D - 1 is counted: the streak is 0 while D is
\* unmet and 1 once D is met.
RunningConsecutive == {r \in HomeRewards : Consecutive(r)}

StreakAtRollover ==
  /\ ~RefMet(Today)
       => /\ proteinStreak = RefRun(Today - 1, Today - MaxOffset)
          /\ \A r \in RunningConsecutive :
               calculateRewardProgress(r).current = RefRun(Today - 1, StartDay(r))
  /\ (Today >= 1 /\ ~RefMet(Today - 1))
       => /\ proteinStreak = (IF RefMet(Today) THEN 1 ELSE 0)
          /\ \A r \in RunningConsecutive :
               calculateRewardProgress(r).current = (IF RefMet(Today) THEN 1 ELSE 0)

\* The streak and a reward's count in the state a step leads to.
StreakAfter == Apply(LAMBDA v : StreakOf(v[1], v[2], v[3]), <<proteinIntakes', proteinGoal', now'>>)
MetAfter(day) == RefDayTotal(proteinIntakes', day) >= proteinGoal'

C21_DayRollover ==
  [][/\ StreakAtRollover
     /\ (DayOf(now') = Today /\ ~RefMet(Today) /\ MetAfter(Today))
          => /\ proteinStreak < MaxOffset + 1 => StreakAfter = proteinStreak + 1
             /\ \A r \in RunningConsecutive :
                  calculateRewardProgress(r).current < MaxOffset + 1
                    => ProgressAfter(r).current = calculateRewardProgress(r).current + 1
     /\ (DayOf(now') = Today + 1 /\ ~RefMet(Today))
          => /\ StreakAfter = 0
             /\ \A r \in RunningConsecutive : ProgressAfter(r).current = 0]_vars

\* Days 0 and 1 met, day 2 ended unmet, today is day 3 and met: the streak
\* is 1.
C21_Witness ==
  /\ Today = 3
  /\ RefMet(0) /\ RefMet(1) /\ ~RefMet(2) /\ RefMet(3)
  /\ proteinStreak = 1
  /\ \E r \in RunningConsecutive : StartDay(r) = 0 /\ calculateRewardProgress(r).current = 1

\* The entries dated on or before day number `day`.
UpToDay(intakes, day) == SelectSeq(intakes, LAMBDA e : DayOf(e.recorded_at) <= day)

\* The progress of a reward computed from the entries dated up to its
\* completion date only.
ProgressAsOfCompletion(r) ==
  ProgressFrom(r,
    IF r.tracking_type = "protein" THEN proteinGoal ELSE calorieGoal,
    IF r.tracking_type = "protein"
      THEN TotalsByDate(UpToDay(proteinIntakes, AnchorDay(r)))
      ELSE TotalsByDate(UpToDay(calorieIntakes, AnchorDay(r))),
    now)

\* C24 as stated: for a completed reward of either streak type, the entries
\* dated after the local date of completed_at change neither current nor
\* percentage.
C24_FrozenEither ==
  \A r \in RewardSet :
    r.completed_at # Null => calculateRewardProgress(r) = ProgressAsOfCompletion(r)

\* C24 amended: for a completed consecutive reward, the entries dated after
\* the local date of completed_at change neither current nor percentage.
C24_FrozenConsecutive ==
  \A r \in RewardSet :
    (r.completed_at # Null /\ Consecutive(r))
      => calculateRewardProgress(r) = ProgressAsOfCompletion(r)

\* A completed consecutive reward and an entry that meets the goal on a day
\* after its completion date.
C24_Witness ==
  \E r \in RewardSet :
    /\ r.completed_at # Null /\ Consecutive(r)
    /\ \E d \in Days : d > AnchorDay(r) /\ d <= Today /\ RefMet(d)
    /\ calculateRewardProgress(r).current = r.target_days

\* C25: the home-page protein streak equals the consecutive-mode streak of
\* the same daily totals and goal, anchored at today with a start date
\* before every day the walk looks at, whatever the entry list (the empty
\* list included) and the goal.
ConsecutiveFromToday ==
  ConsecutiveFrom(proteinTotalsByDate, proteinGoal,
                  AddDays(SetHoursZero(now), -(MaxOffset + 1)), SetHoursZero(now), 0, 0)

C25_HomeIsConsecutive == proteinStreak = ConsecutiveFromToday

\* C26: for every reward that is not completed, the home page's
\* getRewardProgress returns the same current and percentage as the rewards
\* view's calculateRewardProgress, over the same entries, goals and clock.
C26_SameProgress ==
  \A r \in HomeRewards : getRewardProgress(r) = calculateRewardProgress(r)

\* A running calorie reward with one day counted, on a day whose protein
\* total is below the protein goal.
C26_Witness ==
  \E r \in HomeRewards :
    /\ r.tracking_type = "calories"
    /\ ~RefMet(Today)
    /\ getRewardProgress(r).current = 1
    /\ calculateRewardProgress(r).current = 1

\* C27: the weekly protein-days figure is the number of days among the 7
\* calendar days ending today, today included, whose full-day total meets
\* the protein goal (an entry logged at any time today counts toward today),
\* and it never exceeds 7.
C27_WeeklyDays ==
  /\ weeklyProteinDays = Cardinality({d \in (Today - 6)..Today : RefMet(d)})
  /\ weeklyProteinDays <= 7

\* C29: after initialize and any sequence of togglePage calls, enabledPages
\* holds between 1 and 3 page ids, each a configurable page id and none
\* repeated; toggling the only enabled page off changes nothing, and
\* isPageEnabled(p) is false right after an enabled page p that is not the
\* last one is toggled off.
PagesValid(pages) ==
  /\ Len(pages) >= 1 /\ Len(pages) <= 3
  /\ \A i \in 1..Len(pages) : pages[i] \in ConfigurablePages
  /\ \A i, j \in 1..Len(pages) : pages[i] = pages[j] => i = j

C29_EnabledPages ==
  [][/\ PagesValid(enabledPages)
     /\ PagesValid(enabledPages')
     /\ \A p \in ConfigurablePages :
          TogglePage(p)
            => /\ enabledPages = <<p>> => enabledPages' = enabledPages
               /\ (isPageEnabled(p) /\ Len(enabledPages) > 1)
                    => /\ ~Includes(enabledPages', p)
                       /\ Len(enabledPages') = Len(enabledPages) - 1]_vars

\* One page is left after the others were toggled off and the page was
\* loaded again.
C29_Witness ==
  /\ Len(enabledPages) = 1
  /\ savedPages = <<enabledPages>>
  /\ authLoading

\* C30: across navigations, sign-ins, sign-outs and auth-state changes,
\* whenever the current route is marked requiresAuth the auth store holds a
\* signed-in user, and a signed-in user is never on the guest-only login
\* route.
C30_RouteMatchesAuth ==
  /\ RequiresAuth(route) => isAuthenticated(user)
  /\ isAuthenticated(user) => ~Guest(route)

\* The rows of the rewards table before and after a step.
StoredRewards == {backend.rewards[i] : i \in 1..Len(backend.rewards)}
StoredRewardsAfter == {backend'.rewards[i] : i \in 1..Len(backend'.rewards)}
RewardSetAfter == {rewards'[i] : i \in 1..Len(rewards')}

\* C22: completion is a one-way transition.  A step writes completed_at
\* only into a row whose completed_at is null and whose current, over the
\* entries loaded, has reached target_days; and once completed_at is set no
\* step (a load, claiming or creating a reward, a change of the goal, an
\* entry edited or deleted) changes it or sets it back to null, in the table
\* and in the list displayed, whatever the progress has become.
C22_OneWay ==
  [][/\ \A old \in StoredRewards :
          \E new \in StoredRewardsAfter :
            /\ new.id = old.id
            /\ old.completed_at # Null => new.completed_at = old.completed_at
     /\ \A new \in StoredRewardsAfter :
          (new.completed_at # Null /\ new \notin StoredRewards)
            => \/ \E old \in StoredRewards :
                    new.id = old.id /\ new.completed_at = old.completed_at
               \/ /\ \A old \in StoredRewards : new.id = old.id => old.completed_at = Null
                  /\ new.completed_at = <<now>>
                  /\ CompleteOn([new EXCEPT !.completed_at = Null], backend)
     /\ \A r \in RewardSet : \A shown \in RewardSetAfter :
          (shown.id = r.id /\ r.completed_at # Null)
            => shown.completed_at = r.completed_at]_vars

\* A reward that was completed and has been claimed since, whose progress
\* is below its target now.
C22_Witness ==
  \E r \in RewardSet :
    /\ r \in StoredRewards
    /\ r.completed_at # Null
    /\ r.claimed_at # Null
    /\ calculateRewardProgress(r).current < r.target_days

\* A step of the rewards view's loadData answered as o says, on its own or
\* at the end of createReward or claimReward.
IsLoadData(o) ==
  \/ LoadDataWith(o)
  \/ \E id \in RewardIds, st \in StreakTypes, tg \in CompletionTargetChoices :
       CreateRewardWith(id, "protein", st, tg, o)
  \/ \E id \in RewardIds : ClaimReward(id, o)

\* C23: after the rewards view's loadData has finished, its queries
\* answered, no reward in the list displayed has completed_at null while its
\* computed current >= target_days, also when the update of a reward fails.
C23_NoneLeftDue ==
  [][\A o \in LoadOutcomes :
       (o.queries /\ IsLoadData(o))
         => \A shown \in RewardSetAfter :
              ~(/\ shown.completed_at = Null
                /\ ProgressAfter(shown).current >= shown.target_days)]_vars

\* A collection that held rows before the step holds rows after it.
NotEmptied(before, after) == before # <<>> => after # <<>>

\* C28: a failed load leaves the data loaded before untouched.  Whenever a
\* query of a load (the home page's loadRewards, the rewards view's
\* loadData, the nutrition view's loadData) is answered with an error, the
\* collection that query feeds is what it was before the load, none of the
\* collections the load feeds is emptied, and the view's loading flag is
\* cleared afterwards.
C28_FailedLoadKeeps ==
  [][/\ \A o \in LoadOutcomes :
          (IsLoadData(o) /\ (~o.queries \/ ~o.reload))
            => /\ isLoading' = FALSE
               /\ ~o.queries => UNCHANGED <<rewards, proteinIntakes, calorieIntakes>>
               /\ NotEmptied(rewards, rewards')
               /\ NotEmptied(proteinIntakes, proteinIntakes')
               /\ NotEmptied(calorieIntakes, calorieIntakes')
     /\ \A o \in PairOutcomes :
          (NutritionLoadData(o) /\ (~o.first \/ ~o.second))
            => /\ isLoading' = FALSE
               /\ ~o.first => proteinIntakes' = proteinIntakes
               /\ ~o.second => calorieIntakes' = calorieIntakes
     /\ \A o \in PairOutcomes :
          (LoadRewards(o) /\ ~o.first) => home' = FreshHome]_vars

====
